---- MODULE Spec2Model ----
(***************************************************************************)
(* Model of the xk6-vechain client (src/vechain.go):                       *)
(*   - Client.Fund: the funding distributor (clause assignment, one        *)
(*     goroutine per funder, batches of 100 clauses, the shared error      *)
(*     slot clauseErr, the WaitGroup join);                                *)
(*   - Client.pollForBlocks: the block poller started by NewClient, with   *)
(*     the process-wide sync.Map `blocks` as deduplication registry.       *)
(* The two subsystems share no state; each has its own specification       *)
(* (Spec for Fund, SpecLive for Fund with progress, SpecPoll for the        *)
(* pollers) over the same variables.                                       *)
(***************************************************************************)
EXTENDS Integers, Sequences, FiniteSets, TLC

VARIABLES
    \* ---- Client.Fund ----
    managers,    \* len(c.managers): the number of accounts of the client
    start,       \* argument `start` of the running call
    amount,      \* argument `amount` of the running call (hex string, as a sequence of characters)
    fpc,         \* position of the Fund call: "idle", "building", "launching", "returned", "panicked"
    bi,          \* the loop variable i of the loop over the recipients (line 69)
    clauses,     \* the map funder index -> clauses to send (line 66)
    launched,    \* the funders whose goroutine has been started by the range loop (line 95)
    wg,          \* the WaitGroup counter
    wpc,         \* per funder: the position of its goroutine
    wi,          \* per funder: the loop variable i of its goroutine (line 100)
    werr,        \* per funder: the err its goroutine got from Send or Wait
    clauseErr,   \* the shared error slot (line 92): an interface value, two machine words
    txs,         \* the transactions accepted by the node, in submission order
    result,      \* what the call handed to its caller
    \* ---- pollForBlocks ----
    head,        \* per endpoint URL: the best block of the chain behind it
    behind,      \* per endpoint URL: the best block of a node of the endpoint that lags one block
    vu,          \* per poller: what c.vu.State() was at its last test (line 151): "nil" or "set",
                 \* "untested" before the first test
    ppc,         \* per poller: "none", "init", "tick", "read", "gate", "push", "exited"
    ierr,        \* per poller: the err of the initial read (line 133) is non-nil
    pread,       \* per poller: block, err of the read of the running iteration (line 139)
    purl,        \* per poller: c.opts.URL
    prev,        \* per poller: the local prev
    pdiff,       \* per poller: blockTimestampDiff of the running iteration, in seconds
    ptps,        \* per poller: tps of the running iteration
    blocks,      \* the keys stored in the process-wide sync.Map blocks (line 130)
    pushes       \* per poller: the calls of metrics.PushIfNotDone on the Samples channel of its VU, in order

fundVars == <<managers, start, amount, fpc, bi, clauses, launched, wg, wpc, wi, werr,
              clauseErr, txs, result>>
pollVars == <<head, behind, vu, ppc, ierr, pread, purl, prev, pdiff, ptps, blocks, pushes>>
vars == <<fundVars, pollVars>>

(***************************************************************************)
(* Bounds of the model.                                                    *)
(***************************************************************************)
MaxAccounts == 4     \* small account lists 1..MaxAccounts, and the spread of the large ones
MaxWorkers == 2      \* at most this many funders get a goroutine in one call
MaxPollers == 2      \* clients, each with its poller
MaxBlocks == 2       \* new blocks, all chains together

(***************************************************************************)
(* Program constants.                                                      *)
(***************************************************************************)
BatchSize == 100     \* clauses per transaction (line 100: i += 100)
accountAmount == 10  \* default number of accounts (const accountAmount)
VTHOAddress == 0     \* the address of the builtin VTHO contract (builtins.VTHO)

Nil == [typ |-> "nil", data |-> <<>>]

\* c.managers[i].Address(): one distinct address per derived account.
Address(i) == i + 1

(***************************************************************************)
(* Client.Fund                                                             *)
(***************************************************************************)

\* value.SetString(amount, 16): the digits of the string, most significant first.
HexDigits == <<"0", "1", "2", "3", "4", "5", "6", "7", "8", "9",
               "a", "b", "c", "d", "e", "f">>

DigitValue(c) == CHOOSE d \in 0..15 : HexDigits[d + 1] = c

RECURSIVE SetString(_, _)
SetString(s, base) ==
    IF s = <<>> THEN 0
    ELSE SetString(SubSeq(s, 1, Len(s) - 1), base) * base + DigitValue(s[Len(s)])

\* line 73-74: value := new(big.Int); value.SetString(amount, 16)
AmountValue(amt) == SetString(amt, 16)

\* line 61: the only check Fund makes on start
StartTooLargeOrEqual(s, n) == s >= n

StartTooLarge(s, n) == s > n

\* line 71: funderIndex := i % start
FunderIndexDiv(i, s) == i \div s

FunderIndex(i, s) == i % s

\* line 76: transaction.NewClause(&fundee).WithValue(value)
VetClause(fundee, value) ==
    [to |-> fundee, value |-> value, method |-> "", args |-> <<>>]

\* line 77: vtho.AsClause("transfer", fundee, value), a call of the VTHO contract.
\* Packing (address, *big.Int) for the builtin ABI's transfer does not fail, so the
\* error return of lines 78-80 is not taken.
VthoClause(fundee, value) ==
    [to |-> VTHOAddress, value |-> 0, method |-> "transfer", args |-> <<fundee, value>>]

\* lines 82-87: clauses[funderIndex] = append(funderClauses, vetClause, vthoClause)
AppendClauses(acc, f, vet, vtho) ==
    LET funderClauses == IF f \in DOMAIN acc THEN acc[f] ELSE <<>>
    IN  (f :> Append(Append(funderClauses, vet), vtho)) @@ acc

\* lines 69-70: fundee := c.managers[i].Address() panics for an index outside
\* the slice, and line 71: i % start panics for start = 0.
IterationPanics(i, n, s) == i < 0 \/ i >= n \/ s = 0

\* lines 101-104: end := i + 100, capped at len(clauses)
BatchEndShort(i, len) == IF i + BatchSize > len THEN len - 1 ELSE i + BatchSize

BatchEnd(i, len) == IF i + BatchSize > len THEN len ELSE i + BatchSize

\* line 106: clauses[i:end]
Batch(cl, i) == SubSeq(cl, i + 1, BatchEnd(i, Len(cl)))

\* line 100: the loop condition i < len(clauses); a goroutine that leaves the
\* loop runs the deferred wg.Done().
LoopHead(cl, i) == IF i < Len(cl) THEN "send" ELSE "done"

\* line 100: i += 100
NextIndex(i) == i + BatchSize

\* line 107: if err != nil, after Send
SendFailed(err) == err.typ # "nil"

\* line 113: if err != nil, after Wait
WaitFailedNever(err) == FALSE

WaitFailed(err) == err.typ # "nil"

\* line 121: wg.Wait() returns when the counter is zero
WgWaitSkipped(counter) == TRUE

WgWaitReturns(counter) == counter = 0

\* line 123: clauseErr != nil compares the type word of the interface value
IsNonNil(e) == e.typ # "nil"

NoResult == [kind |-> "none", err |-> Nil]
ErrStartIndex == [typ |-> "errorString", data |-> <<>>]
SendError(f, i) == [typ |-> "sendError", data |-> <<f, i>>]
WaitError(f, i) == [typ |-> "waitError", data |-> <<f, i>>]

\* The inputs of the model.
Amounts == {<<"1", "0">>, <<"f", "f">>}

AccountCounts ==
    (1..MaxAccounts)
        \cup {accountAmount + k : k \in 0..MaxWorkers}
        \cup {BatchSize + k : k \in 1..MaxAccounts}

NumWorkers(s, n) == Cardinality({i % s : i \in s..(n - 1)})

Starts(n) == {s \in -1..(n + 1) : (0 < s /\ s <= n) => NumWorkers(s, n) <= MaxWorkers}

InitFund ==
    /\ managers \in AccountCounts
    /\ start = 0
    /\ amount = <<>>
    /\ fpc = "idle"
    /\ bi = 0
    /\ clauses = <<>>
    /\ launched = {}
    /\ wg = 0
    /\ wpc = <<>>
    /\ wi = <<>>
    /\ werr = <<>>
    /\ clauseErr = Nil
    /\ txs = <<>>
    /\ result = NoResult

\* lines 60-68: the call up to the start of the loop over the recipients.
FundCall(s, amt) ==
    /\ fpc = "idle"
    /\ start' = s
    /\ amount' = amt
    /\ IF StartTooLarge(s, managers)
       THEN /\ fpc' = "returned"
            /\ result' = [kind |-> "error", err |-> ErrStartIndex]
            /\ UNCHANGED bi
       ELSE /\ fpc' = "building"
            /\ bi' = s
            /\ UNCHANGED result
    /\ UNCHANGED <<managers, clauses, launched, wg, wpc, wi, werr, clauseErr, txs>>
    /\ UNCHANGED pollVars

\* lines 69-93: one iteration of the loop over the recipients, or its exit.
BuildStep ==
    /\ fpc = "building"
    /\ IF ~(bi < managers)
       THEN /\ fpc' = "launching"
            /\ wpc' = [f \in DOMAIN clauses |-> "new"]
            /\ wi' = [f \in DOMAIN clauses |-> 0]
            /\ werr' = [f \in DOMAIN clauses |-> Nil]
            /\ UNCHANGED <<clauses, bi, result>>
       ELSE IF IterationPanics(bi, managers, start)
       THEN /\ fpc' = "panicked"
            /\ result' = [kind |-> "panic", err |-> Nil]
            /\ UNCHANGED <<clauses, bi, wpc, wi, werr>>
       ELSE /\ clauses' = AppendClauses(clauses, FunderIndex(bi, start),
                                        VetClause(Address(bi), AmountValue(amount)),
                                        VthoClause(Address(bi), AmountValue(amount)))
            /\ bi' = bi + 1
            /\ UNCHANGED <<fpc, wpc, wi, werr, result>>
    /\ UNCHANGED <<managers, start, amount, launched, wg, clauseErr, txs>>
    /\ UNCHANGED pollVars

\* lines 95-100: one iteration of the range loop (map order is unspecified):
\* wg.Add(1) and the start of the goroutine, up to its first loop test.
Launch(f) ==
    /\ fpc = "launching"
    /\ f \in DOMAIN clauses
    /\ f \notin launched
    /\ launched' = launched \cup {f}
    /\ wpc' = [wpc EXCEPT ![f] = LoopHead(clauses[f], 0)]
    /\ wg' = IF LoopHead(clauses[f], 0) = "done" THEN wg ELSE wg + 1
    /\ UNCHANGED <<managers, start, amount, fpc, bi, clauses, wi, werr, clauseErr, txs, result>>
    /\ UNCHANGED pollVars

\* line 106: tx, err := Transactor(clauses[i:end], manager.Address()).Send(manager),
\* and the test of err (line 107)
WorkerSend(f, ok) ==
    /\ f \in launched
    /\ wpc[f] = "send"
    /\ werr' = [werr EXCEPT ![f] = IF ok THEN Nil ELSE SendError(f, wi[f])]
    /\ txs' = IF ok
              THEN Append(txs, [funder |-> f, origin |-> Address(f), at |-> wi[f],
                                clauses |-> Batch(clauses[f], wi[f]),
                                status |-> "pending"])
              ELSE txs
    /\ wpc' = [wpc EXCEPT ![f] = IF SendFailed(werr'[f]) THEN "storeTyp" ELSE "wait"]
    /\ UNCHANGED <<managers, start, amount, fpc, bi, clauses, launched, wg, wi, clauseErr, result>>
    /\ UNCHANGED pollVars

\* the transaction the goroutine of f waits for (the local tx)
PendingTx(f) == CHOOSE k \in 1..Len(txs) : txs[k].funder = f /\ txs[k].status = "pending"

\* line 112: _, err = tx.Wait(), the test of err (line 113), then i += 100 and
\* the loop test
WorkerWait(f, ok) ==
    /\ f \in launched
    /\ wpc[f] = "wait"
    /\ txs' = [txs EXCEPT ![PendingTx(f)].status = IF ok THEN "confirmed" ELSE "failed"]
    /\ werr' = [werr EXCEPT ![f] = IF ok THEN Nil ELSE WaitError(f, wi[f])]
    /\ IF WaitFailed(werr'[f])
       THEN /\ wpc' = [wpc EXCEPT ![f] = "storeTyp"]
            /\ UNCHANGED <<wi, wg>>
       ELSE /\ wi' = [wi EXCEPT ![f] = NextIndex(wi[f])]
            /\ wpc' = [wpc EXCEPT ![f] = LoopHead(clauses[f], NextIndex(wi[f]))]
            /\ wg' = IF LoopHead(clauses[f], NextIndex(wi[f])) = "done" THEN wg - 1 ELSE wg
    /\ UNCHANGED <<managers, start, amount, fpc, bi, clauses, launched, clauseErr, result>>
    /\ UNCHANGED pollVars

\* lines 108 and 114: clauseErr = err is an unsynchronised store of a two-word
\* interface value; the two words are stored one after the other.
WorkerStoreTyp(f) ==
    /\ f \in launched
    /\ wpc[f] = "storeTyp"
    /\ clauseErr' = [clauseErr EXCEPT !.typ = werr[f].typ]
    /\ wpc' = [wpc EXCEPT ![f] = "storeData"]
    /\ UNCHANGED <<managers, start, amount, fpc, bi, clauses, launched, wg, wi, werr, txs, result>>
    /\ UNCHANGED pollVars

\* the second word, then return and the deferred wg.Done()
WorkerStoreData(f) ==
    /\ f \in launched
    /\ wpc[f] = "storeData"
    /\ clauseErr' = [clauseErr EXCEPT !.data = werr[f].data]
    /\ wpc' = [wpc EXCEPT ![f] = "failed"]
    /\ wg' = wg - 1
    /\ UNCHANGED <<managers, start, amount, fpc, bi, clauses, launched, wi, werr, txs, result>>
    /\ UNCHANGED pollVars

\* lines 121-127: wg.Wait() returns once the counter is zero
FundReturn ==
    /\ fpc = "launching"
    /\ launched = DOMAIN clauses
    /\ WgWaitReturns(wg)
    /\ fpc' = "returned"
    /\ result' = IF IsNonNil(clauseErr)
                 THEN [kind |-> "error", err |-> clauseErr]
                 ELSE [kind |-> "nil", err |-> Nil]
    /\ UNCHANGED <<managers, start, amount, bi, clauses, launched, wg, wpc, wi, werr,
                   clauseErr, txs>>
    /\ UNCHANGED pollVars

Next ==
    \/ \E s \in Starts(managers), amt \in Amounts : FundCall(s, amt)
    \/ BuildStep
    \/ \E f \in DOMAIN clauses : Launch(f)
    \/ \E f \in DOMAIN clauses, ok \in BOOLEAN : WorkerSend(f, ok)
    \/ \E f \in DOMAIN clauses, ok \in BOOLEAN : WorkerWait(f, ok)
    \/ \E f \in DOMAIN clauses : WorkerStoreTyp(f)
    \/ \E f \in DOMAIN clauses : WorkerStoreData(f)
    \/ FundReturn

(***************************************************************************)
(* pollForBlocks                                                           *)
(***************************************************************************)

\* The endpoint URLs of the clients (c.opts.URL), as sequences of characters.
UrlA == <<"h">>
UrlB == <<"h", "1">>
URLs == {UrlA, UrlB}

Pollers == 1..MaxPollers

\* The height of the chain behind each endpoint when the process starts.
FirstBlock(u) == IF u = UrlA THEN 10 ELSE 0

\* What the chain produces: seconds between two blocks, transactions and gas of a block.
BlockIntervals == {5}
TxCounts == {20}
GasUseds == {21000}

FirstHead(u) == [Number |-> FirstBlock(u), Timestamp |-> 100, Transactions |-> 5, GasUsed |-> 0]

NoBlock == [Number |-> 0, Timestamp |-> 0, Transactions |-> 0, GasUsed |-> 0]

\* strconv.FormatUint(n, 10)
DecimalDigits == <<"0", "1", "2", "3", "4", "5", "6", "7", "8", "9">>

RECURSIVE FormatUint(_)
FormatUint(n) ==
    IF n < 10 THEN <<DecimalDigits[n + 1]>>
    ELSE FormatUint(n \div 10) \o <<DecimalDigits[(n % 10) + 1]>>

\* line 152: c.opts.URL + strconv.FormatUint(block.Number, 10)
KeyUrlOnly(u, number) == u

Key(u, number) == u \o FormatUint(number)

\* lines 133-134 and 139-140: what c.thor.Blocks.Best() returned: block, err.
\* The block of a failed read is nil and is not looked at.
NoRead == [err |-> FALSE, block |-> NoBlock]

FailedRead == [err |-> TRUE, block |-> NoBlock]

\* line 134: err != nil, after the initial read
InitFailedNever(r) == FALSE

InitFailed(r) == r.err

\* line 140: err != nil, after the read of a tick
ReadFailedAlways(r) == TRUE

ReadFailed(r) == r.err

\* line 144: block.Number > prev.Number
IsNewerOrEqual(b, p) == b.Number >= p.Number

IsNewerOrOlder(b, p) == b.Number # p.Number

IsNewer(b, p) == b.Number > p.Number

\* line 145: time.Unix(block.Timestamp, 0).Sub(time.Unix(prev.Timestamp, 0)), in seconds
TimestampDiffSwapped(b, p) == p.Timestamp - b.Timestamp

TimestampDiff(b, p) == b.Timestamp - p.Timestamp

\* line 146: float64(len(block.Transactions)) / blockTimestampDiff.Seconds(), as a fraction
Tps(b, diff) == [num |-> b.Transactions, den |-> diff]

NoTps == [num |-> 0, den |-> 0]

\* line 151: c.vu != nil && c.vu.State() != nil && rootTS != nil
\* (the VU of a client and the root tag set of a new registry are never nil)
HasStateAlways(st) == TRUE

HasState(st) == st = "set"

\* line 152: blocks.LoadOrStore(key, true): loaded, and the map after the call
LoadedIgnored(m, key) == FALSE

Loaded(m, key) == key \in m

StoredNothing(m, key) == m

StoredAlone(m, key) == {key}

Stored(m, key) == m \cup {key}

\* lines 158-199: the four samples of one block
Samples(b, diff, tps) ==
    << [metric |-> "vechain_block", value |-> b.Number,
        tags |-> <<b.Transactions, b.GasUsed>>],
       [metric |-> "vechain_gas_used", value |-> b.GasUsed, tags |-> <<b.Number>>],
       [metric |-> "vechain_tps", value |-> tps, tags |-> <<>>],
       [metric |-> "vechain_block_time", value |-> diff * 1000, tags |-> <<diff>>] >>

InitPoll ==
    /\ head = [u \in URLs |-> FirstHead(u)]
    /\ behind = [u \in URLs |-> FirstHead(u)]
    /\ vu = [p \in Pollers |-> "untested"]
    /\ ppc = [p \in Pollers |-> "none"]
    /\ ierr = [p \in Pollers |-> FALSE]
    /\ pread = [p \in Pollers |-> NoRead]
    /\ purl = [p \in Pollers |-> <<>>]
    /\ prev = [p \in Pollers |-> NoBlock]
    /\ pdiff = [p \in Pollers |-> 0]
    /\ ptps = [p \in Pollers |-> NoTps]
    /\ blocks = {}
    /\ pushes = [p \in Pollers |-> <<>>]

\* The number of blocks the chains got since the process started.
Mined == (head[UrlA].Number - FirstBlock(UrlA)) + (head[UrlB].Number - FirstBlock(UrlB))

\* The chain behind endpoint u gets a new best block; a node that lags is at the
\* block before.
NewBlock(u, dt, n, gas) ==
    /\ Mined < MaxBlocks
    /\ head' = [head EXCEPT ![u] = [Number |-> head[u].Number + 1,
                                    Timestamp |-> head[u].Timestamp + dt,
                                    Transactions |-> n,
                                    GasUsed |-> gas]]
    /\ behind' = [behind EXCEPT ![u] = head[u]]
    /\ UNCHANGED <<vu, ppc, ierr, pread, purl, prev, pdiff, ptps, blocks, pushes>>
    /\ UNCHANGED fundVars

\* lines 267-330: NewClient builds the client for URL u and starts its poller (line 327).
\* The clients are interchangeable: the model numbers them in the order of their
\* creation. UrlB, whose keys can be those of UrlA, is the endpoint of at most one
\* client, the last one.
NewClient(p, u) ==
    /\ ppc[p] = "none"
    /\ \A q \in 1..(p - 1) : ppc[q] # "none"
    /\ u = UrlB => p = MaxPollers
    /\ purl' = [purl EXCEPT ![p] = u]
    /\ ppc' = [ppc EXCEPT ![p] = "init"]
    /\ UNCHANGED <<head, behind, vu, ierr, pread, prev, pdiff, ptps, blocks, pushes>>
    /\ UNCHANGED fundVars

\* What the initial read (line 133) can return: an error, or the best block.
InitReads(u) == {FailedRead, [err |-> FALSE, block |-> head[u]]}

\* What the read of a tick (line 139) can return: an error, the best block, or the
\* best block of a node that lags.
TickReads(u) == InitReads(u) \cup {[err |-> FALSE, block |-> behind[u]]}

\* lines 133-136: the initial read of the best block; on an error the function
\* returns. Of the pollers of one endpoint, the one with the smaller number is the
\* one that reads first.
PollInit(p, r) ==
    /\ ppc[p] = "init"
    /\ \A q \in 1..(p - 1) : purl[q] = purl[p] => ppc[q] # "init"
    /\ ierr' = [ierr EXCEPT ![p] = r.err]
    /\ IF InitFailed(r)
       THEN /\ ppc' = [ppc EXCEPT ![p] = "exited"]
            /\ UNCHANGED prev
       ELSE /\ prev' = [prev EXCEPT ![p] = r.block]
            /\ ppc' = [ppc EXCEPT ![p] = "tick"]
    /\ UNCHANGED <<head, behind, vu, pread, purl, pdiff, ptps, blocks, pushes>>
    /\ UNCHANGED fundVars

\* lines 138-139: a tick of the timer and the read of the best block.
\* What follows the read up to line 148 touches the locals of the poller only, so
\* that it is enough to have one poller at a time between its read and line 148.
TickRead(p, r) ==
    /\ ppc[p] = "tick"
    /\ \A q \in Pollers : ppc[q] # "read"
    /\ pread' = [pread EXCEPT ![p] = r]
    /\ ppc' = [ppc EXCEPT ![p] = "read"]
    /\ UNCHANGED <<head, behind, vu, ierr, purl, prev, pdiff, ptps, blocks, pushes>>
    /\ UNCHANGED fundVars

\* lines 140-148: the test of err (continue on an error), the comparison with prev,
\* the computation of the difference and of tps, and prev = block.
\* After line 148 block and prev are the same block, which the model keeps in prev.
TickCompare(p) ==
    /\ ppc[p] = "read"
    /\ pread' = [pread EXCEPT ![p] = NoRead]
    /\ IF ~ReadFailed(pread[p]) /\ IsNewer(pread[p].block, prev[p])
       THEN /\ pdiff' = [pdiff EXCEPT ![p] = TimestampDiff(pread[p].block, prev[p])]
            /\ ptps' = [ptps EXCEPT ![p] =
                            Tps(pread[p].block, TimestampDiff(pread[p].block, prev[p]))]
            /\ prev' = [prev EXCEPT ![p] = pread[p].block]
            /\ ppc' = [ppc EXCEPT ![p] = "gate"]
       ELSE /\ ppc' = [ppc EXCEPT ![p] = "tick"]
            /\ UNCHANGED <<prev, pdiff, ptps>>
    /\ UNCHANGED <<head, behind, vu, ierr, purl, blocks, pushes>>
    /\ UNCHANGED fundVars

\* lines 150-155: the test of the VU state and the LoadOrStore on the registry.
\* State() is nil while the VU is in the init context and set from its start on; it
\* is read here only, so that what it is (st) is an input of the step.
TickGate(p, st) ==
    /\ ppc[p] = "gate"
    /\ vu[p] = "set" => st = "set"
    /\ vu' = [vu EXCEPT ![p] = st]
    /\ IF HasState(st)
       THEN /\ blocks' = Stored(blocks, Key(purl[p], prev[p].Number))
            /\ IF Loaded(blocks, Key(purl[p], prev[p].Number))
               THEN /\ ppc' = [ppc EXCEPT ![p] = "tick"]
                    /\ pdiff' = [pdiff EXCEPT ![p] = 0]
                    /\ ptps' = [ptps EXCEPT ![p] = NoTps]
               ELSE /\ ppc' = [ppc EXCEPT ![p] = "push"]
                    /\ UNCHANGED <<pdiff, ptps>>
       ELSE /\ ppc' = [ppc EXCEPT ![p] = "tick"]
            /\ pdiff' = [pdiff EXCEPT ![p] = 0]
            /\ ptps' = [ptps EXCEPT ![p] = NoTps]
            /\ UNCHANGED blocks
    /\ UNCHANGED <<head, behind, ierr, pread, purl, prev, pushes>>
    /\ UNCHANGED fundVars

\* The context of the VU of poller p was done at one of its earlier pushes.
WasDone(p) == \E k \in 1..Len(pushes[p]) : ~pushes[p][k].delivered

\* lines 157-200: metrics.PushIfNotDone(c.vu.Context(), c.vu.State().Samples, ...):
\* the samples reach the sink unless the context of the VU is done, which it is
\* from the end of the VU on. The context is read nowhere else, so that whether it
\* is done is an input of the push.
TickPush(p, done) ==
    /\ ppc[p] = "push"
    /\ WasDone(p) => done
    /\ pushes' = [pushes EXCEPT ![p] =
                      Append(pushes[p], [url |-> purl[p], number |-> prev[p].Number,
                                         delivered |-> ~done,
                                         samples |-> Samples(prev[p], pdiff[p], ptps[p])])]
    /\ ppc' = [ppc EXCEPT ![p] = "tick"]
    /\ pdiff' = [pdiff EXCEPT ![p] = 0]
    /\ ptps' = [ptps EXCEPT ![p] = NoTps]
    /\ UNCHANGED <<head, behind, vu, ierr, pread, purl, prev, blocks>>
    /\ UNCHANGED fundVars

\* The pollers NewClient has started.
Started == {p \in Pollers : ppc[p] # "none"}

NextPoll ==
    \/ \E u \in URLs, dt \in BlockIntervals, n \in TxCounts, gas \in GasUseds :
            NewBlock(u, dt, n, gas)
    \/ \E p \in Pollers, u \in URLs : NewClient(p, u)
    \/ \E p \in Started : \E r \in InitReads(purl[p]) : PollInit(p, r)
    \/ \E p \in Started : \E r \in TickReads(purl[p]) : TickRead(p, r)
    \/ \E p \in Pollers : TickCompare(p)
    \/ \E p \in Pollers, st \in {"nil", "set"} : TickGate(p, st)
    \/ \E p \in Pollers, done \in BOOLEAN : TickPush(p, done)

FundIdle ==
    /\ managers = accountAmount
    /\ start = 0
    /\ amount = <<>>
    /\ fpc = "idle"
    /\ bi = 0
    /\ clauses = <<>>
    /\ launched = {}
    /\ wg = 0
    /\ wpc = <<>>
    /\ wi = <<>>
    /\ werr = <<>>
    /\ clauseErr = Nil
    /\ txs = <<>>
    /\ result = NoResult

Init == InitFund /\ InitPoll

Spec == Init /\ [][Next]_vars

\* Fund with progress: a goroutine that can take a step takes one, and every Send
\* and every Wait returns; no step of a goroutine disables that of another.
\* The account lists are those of one batch per funder and the smallest one with
\* a funder of two batches.
InitLive == Init /\ managers <= BatchSize + 1

SpecLive == InitLive /\ [][Next]_vars /\ WF_vars(Next)

InitPollers == FundIdle /\ InitPoll

SpecPoll == InitPollers /\ [][NextPoll]_vars

(***************************************************************************)
(* Properties of the pollers (checked under SpecPoll)                      *)
(***************************************************************************)

\* The block numbers the chain behind endpoint u can reach within the bounds.
Heights(u) == FirstBlock(u)..(FirstBlock(u) + MaxBlocks)

\* The pushes made for block n of endpoint u, as <<poller, position>>.
PushesFor(u, n) ==
    UNION {{<<p, i>> : i \in {k \in 1..Len(pushes[p]) :
                                  pushes[p][k].url = u /\ pushes[p][k].number = n}} :
           p \in Pollers}

PushingFor(u, n) == {p \in Pollers : ppc[p] = "push" /\ purl[p] = u /\ prev[p].Number = n}

\* C1: for every (endpoint URL, block number) at most one group of samples is ever
\* pushed, counting the loops that have passed the registry and are about to push,
\* and a loop pushes only after its LoadOrStore stored the key of that pair.
C1_AtMostOneGroup ==
    \A u \in URLs : \A n \in Heights(u) :
        /\ Cardinality(PushesFor(u, n)) + Cardinality(PushingFor(u, n)) <= 1
        /\ (PushesFor(u, n) \cup PushingFor(u, n) # {}) => Key(u, n) \in blocks

\* C1 witness: a loop whose VU state is set has pushed nothing, although it went
\* through the registry for its block: another loop of the same endpoint had pushed
\* that block.
C1_SecondLoopRefused ==
    \E p \in Pollers : \E q \in Pollers \ {p} :
        /\ ppc[p] = "tick"
        /\ HasState(vu[p])
        /\ pushes[p] = <<>>
        /\ purl[q] = purl[p]
        /\ \E g \in PushesFor(purl[p], prev[p].Number) : g[1] = q

\* Poller p ends the iteration in which it saw a new block.
Completes(p) == ppc[p] \in {"gate", "push"} /\ ppc'[p] = "tick"

\* No other poller of p's endpoint is still inside its iteration for p's block.
OthersDone(p) ==
    \A q \in Pollers \ {p} :
        ~(purl[q] = purl[p] /\ prev[q].Number = prev[p].Number /\ ppc[q] \in {"gate", "push"})

ExactlyOneGroup(u, n) ==
    /\ Cardinality(PushesFor(u, n)) = 1
    /\ \A g \in PushesFor(u, n) : Len(pushes[g[1]][g[2]].samples) = 4

\* The blocks the chain behind endpoint u can get after the process started.
NewHeights(u) == (FirstBlock(u) + 1)..(FirstBlock(u) + MaxBlocks)

\* Another endpoint can get, next to block n of u, a block whose registry key is the
\* same string.
Collides(u, n) ==
    \E u2 \in URLs \ {u} : \E m \in NewHeights(u2) :
        /\ (n - FirstBlock(u)) + (m - FirstBlock(u2)) <= MaxBlocks
        /\ Key(u2, m) = Key(u, n)

\* C2 as stated: once the pollers of an endpoint that saw the head go from b to b+1
\* have all ended that iteration, exactly one group of 4 samples has been pushed for
\* (endpoint, b+1).
C2_ExactlyOneGroup ==
    [][\A p \in Pollers :
          (/\ Completes(p)
           /\ prev[p].Number = FirstBlock(purl[p]) + 1
           /\ OthersDone(p))
          => ExactlyOneGroup(purl[p], prev[p].Number)']_vars

\* The (endpoint, block) pairs whose URL followed by the decimal block number is the
\* same string as that of (u, n).
SameKey(u, n) ==
    {w \in UNION {{<<u2, m>> : m \in Heights(u2)} : u2 \in URLs} :
        w[1] \o FormatUint(w[2]) = u \o FormatUint(n)}

PushesForKey(u, n) == UNION {PushesFor(w[1], w[2]) : w \in SameKey(u, n)}

\* No other poller is still inside its iteration for a block with p's registry key.
OthersDoneKey(p) ==
    \A q \in Pollers \ {p} :
        ~(/\ ppc[q] \in {"gate", "push"}
          /\ <<purl[q], prev[q].Number>> \in SameKey(purl[p], prev[p].Number))

\* C2 amended: never more than one group of 4 samples is pushed for an (endpoint,
\* block); and once a poller that found its VU state set ends the iteration for a
\* new block, no other poller being inside its iteration for the same registry key,
\* exactly one group of 4 samples has been pushed under that key: for the block
\* itself, unless a block of another endpoint with the same key was registered first.
C2_OneGroupPerKey ==
    [][/\ pushes' # pushes =>
            \A u \in URLs : \A n \in Heights(u) : Cardinality(PushesFor(u, n))' <= 1
       /\ \A p \in Pollers :
            (/\ Completes(p)
             /\ OthersDoneKey(p)
             /\ HasState(vu'[p]))
            => (/\ Cardinality(PushesForKey(purl[p], prev[p].Number)) = 1
                /\ \A g \in PushesForKey(purl[p], prev[p].Number) :
                       Len(pushes[g[1]][g[2]].samples) = 4)']_vars

\* C2 witness: two pollers with VU state share an endpoint, both have ended the
\* iteration for the same new block, which collides with no other endpoint's, and
\* one group of 4 samples was pushed for it by a poller that saw the head go from
\* the block before to this one (the block time is one block interval).
C2_TwoPollersOneGroup ==
    \E p \in Pollers : \E q \in Pollers \ {p} :
        /\ purl[p] = purl[q]
        /\ ppc[p] = "tick" /\ ppc[q] = "tick"
        /\ HasState(vu[p]) /\ HasState(vu[q])
        /\ prev[p].Number > FirstBlock(purl[p])
        /\ prev[q].Number = prev[p].Number
        /\ ~Collides(purl[p], prev[p].Number)
        /\ Key(purl[p], prev[p].Number) \in blocks
        /\ ExactlyOneGroup(purl[p], prev[p].Number)
        /\ \A g \in PushesFor(purl[p], prev[p].Number) :
               pushes[g[1]][g[2]].samples[4].tags[1] \in BlockIntervals

\* The part of the state a poller has no hand in between its read and line 148,
\* but for its own prev, pdiff and ptps.
Outside == <<head, behind, vu, ierr, purl, blocks, pushes>>

\* Poller p leaves line 148 or one of the tests before it.
Compares(p) == ppc[p] = "read" /\ ppc'[p] # "read"

\* C11: a tick whose read returns a block whose number is equal to or lower than
\* that of the stored previous block pushes nothing, stores nothing in the registry
\* and leaves the previous block as it is; the loop is back at its head.
C11_NoNewBlockNoEffect ==
    [][\A p \in Pollers :
          (/\ Compares(p)
           /\ ~pread[p].err
           /\ pread[p].block.Number <= prev[p].Number)
          => (/\ ppc'[p] = "tick"
              /\ prev' = prev
              /\ blocks' = blocks
              /\ pushes' = pushes)]_vars

\* C11 witness: a poller that pushed the samples of its previous block has read, on
\* a later tick, a block with the same number.
C11_SameHeadReadAgain ==
    \E p \in Pollers :
        /\ ppc[p] = "read"
        /\ ~pread[p].err
        /\ pread[p].block.Number = prev[p].Number
        /\ pushes[p] # <<>>
        /\ pushes[p][Len(pushes[p])].number = prev[p].Number

\* C12: a tick whose read fails changes nothing but the position of the loop, which
\* is back at its head with the locals it had before the read, so that the read is
\* done again on the next tick; a read that succeeds with a strictly greater block
\* is then processed: it becomes the previous block and goes on to the gate.
C12_FailedReadSkipsTick ==
    [][\A p \in Pollers :
          /\ (ppc[p] = "tick" /\ ppc'[p] # "tick") =>
                 (/\ ppc'[p] = "read"
                  /\ Outside' = Outside
                  /\ <<prev, pdiff, ptps>>' = <<prev, pdiff, ptps>>)
          /\ (Compares(p) /\ pread[p].err) =>
                 (/\ ppc'[p] = "tick"
                  /\ pread'[p] = NoRead
                  /\ Outside' = Outside
                  /\ <<prev, pdiff, ptps>>' = <<prev, pdiff, ptps>>)
          /\ (Compares(p) /\ ~pread[p].err /\ pread[p].block.Number > prev[p].Number) =>
                 (/\ ppc'[p] = "gate"
                  /\ prev'[p] = pread[p].block)]_vars

\* C12 witness: the read of a poller that pushed samples before has failed while the
\* chain has a block the poller has not seen.
C12_ReadFailedWithNewHead ==
    \E p \in Pollers :
        /\ ppc[p] = "read"
        /\ pread[p].err
        /\ pushes[p] # <<>>
        /\ head[purl[p]].Number > prev[p].Number

\* C13: a poller whose initial read failed has returned: it has no previous block,
\* has made no read of a tick, has never been at the test of line 151, hence never
\* at the registry, and has pushed nothing, whatever the chain and the other pollers
\* did since.
C13_FailedInitNeverPolls ==
    \A p \in Pollers :
        ierr[p] =>
            /\ ppc[p] = "exited"
            /\ prev[p] = NoBlock
            /\ pread[p] = NoRead
            /\ vu[p] = "untested"
            /\ pushes[p] = <<>>

\* C13 witness: the initial read of a poller failed, the chain went on, and another
\* poller of the same endpoint, started after it, pushed the samples of a new block.
C13_OthersEmitAfterFailedInit ==
    \E p \in Pollers : \E q \in Pollers \ {p} :
        /\ ierr[p]
        /\ p < q
        /\ purl[q] = purl[p]
        /\ \E k \in 1..Len(pushes[q]) :
               /\ pushes[q][k].number > FirstBlock(purl[q])
               /\ pushes[q][k].delivered

C14_Increasing ==
    \A p \in Pollers :
        /\ \A k \in 2..Len(pushes[p]) : pushes[p][k - 1].number < pushes[p][k].number
        /\ \A k \in 1..Len(pushes[p]) : pushes[p][k].number <= prev[p].Number

C14_Step ==
    \A p \in Pollers :
        /\ (Compares(p) /\ ~pread[p].err /\ pread[p].block.Number > prev[p].Number)
               => prev'[p] = pread[p].block
        /\ prev'[p] # prev[p] =>
               \/ ppc[p] = "init"
               \/ /\ Compares(p)
                  /\ ~pread[p].err
                  /\ prev'[p] = pread[p].block
                  /\ prev'[p].Number > prev[p].Number

\* C14: the previous block of a poller is replaced by the block read at a tick
\* whenever that block has a strictly greater number, and at no other step after
\* the initial read: not at the gate, not at the push, whatever they do; so its
\* number grows strictly at each replacement, and the blocks a poller pushed samples
\* for have strictly growing numbers, none above that of its previous block.
C14_PrevStrictlyIncreasing == []C14_Increasing /\ [][C14_Step]_vars

\* C14 witness: a poller pushed the samples of one new block while its sink was
\* unavailable, then took the next block as its previous block in a tick that the
\* registry discarded, another poller having pushed for that block.
C14_ReplacedThoughDiscarded ==
    \E p \in Pollers : \E q \in Pollers \ {p} :
        /\ purl[q] = purl[p]
        /\ ppc[p] = "tick"
        /\ vu[p] = "set"
        /\ Len(pushes[p]) = 1
        /\ ~pushes[p][1].delivered
        /\ prev[p].Number = pushes[p][1].number + 1
        /\ \E k \in 1..Len(pushes[q]) : pushes[q][k].number = prev[p].Number

\* C15: a group of samples that was pushed while the sink was unavailable is the
\* only push ever made for its (endpoint, block): the key of the pair is in the
\* registry, no poller is about to push for the pair, and no other push for it
\* exists, by the same poller or by another.
C15_DroppedIsNotRetried ==
    \A p \in Pollers : \A k \in 1..Len(pushes[p]) :
        ~pushes[p][k].delivered =>
            /\ (pushes[p][k].url \o FormatUint(pushes[p][k].number)) \in blocks
            /\ \A q \in Pollers :
                   /\ ~(/\ ppc[q] = "push"
                        /\ purl[q] = pushes[p][k].url
                        /\ prev[q].Number = pushes[p][k].number)
                   /\ \A j \in 1..Len(pushes[q]) :
                          (/\ pushes[q][j].url = pushes[p][k].url
                           /\ pushes[q][j].number = pushes[p][k].number)
                          => (q = p /\ j = k)

\* C15 witness: the push of a poller for a block was dropped; the poller went on to
\* a later block, and another poller of the endpoint, whose VU state is set, went
\* through its tick for the dropped block and pushed nothing.
C15_DroppedThenRefused ==
    \E p \in Pollers : \E q \in Pollers \ {p} :
        /\ purl[q] = purl[p]
        /\ pushes[p] # <<>>
        /\ ~pushes[p][1].delivered
        /\ prev[p].Number > pushes[p][1].number
        /\ ppc[p] = "tick"
        /\ ppc[q] = "tick"
        /\ vu[q] = "set"
        /\ prev[q].Number = pushes[p][1].number
        /\ pushes[q] = <<>>

\* The fraction t is the number v.
TpsIs(t, v) == t.den > 0 /\ t.num = v * t.den

\* The group of samples poller p pushes in this step.
Pushed(p) == pushes'[p][Len(pushes'[p])]

\* C16: at a tick that read a strictly greater block, elapsed is the timestamp of
\* that block minus the timestamp of the previous block of the poller, and tps is
\* the number of transactions of the block over elapsed; previous {timestamp 100}
\* and new {timestamp 105, 20 transactions} give elapsed 5 and tps 4; the samples
\* pushed carry tps and elapsed in milliseconds.
C16_ElapsedAndTps ==
    [][\A p \in Pollers :
          /\ (Compares(p) /\ ppc'[p] = "gate") =>
                 /\ pdiff'[p] = pread[p].block.Timestamp - prev[p].Timestamp
                 /\ ptps'[p].num = pread[p].block.Transactions
                 /\ ptps'[p].den = pdiff'[p]
                 /\ (/\ prev[p].Timestamp = 100
                     /\ pread[p].block.Timestamp = 105
                     /\ pread[p].block.Transactions = 20)
                    => (pdiff'[p] = 5 /\ TpsIs(ptps'[p], 4))
          /\ (ppc[p] = "push" /\ ppc'[p] # "push") =>
                 /\ Len(pushes'[p]) = Len(pushes[p]) + 1
                 /\ Pushed(p).samples[3].metric = "vechain_tps"
                 /\ Pushed(p).samples[3].value = ptps[p]
                 /\ Pushed(p).samples[4].metric = "vechain_block_time"
                 /\ Pushed(p).samples[4].value = 1000 * pdiff[p]]_vars

\* C16 witness: samples were pushed for a block that is two blocks after the
\* previous block of the poller: elapsed is 10 s, tps is 20 / 10 = 2.
C16_ElapsedOverTwoBlocks ==
    \E p \in Pollers : \E k \in 1..Len(pushes[p]) :
        /\ pushes[p][k].number = FirstBlock(pushes[p][k].url) + 2
        /\ pushes[p][k].samples[4].value = 10000
        /\ TpsIs(pushes[p][k].samples[3].value, 2)

\* C18: no step takes a key out of the registry, and a step that puts one in is the
\* LoadOrStore of a poller that is past line 148 with a new block and found its VU
\* state set: it adds the key of its endpoint and block, and nothing else.
C18_RegistryOnlyGrows ==
    [][/\ blocks \subseteq blocks'
       /\ blocks' # blocks =>
              \E p \in Pollers :
                  /\ ppc[p] = "gate"
                  /\ ppc'[p] = "push"
                  /\ vu'[p] = "set"
                  /\ blocks' = blocks \cup {purl[p] \o FormatUint(prev[p].Number)}]_vars

\* C18 witness: the registry holds the keys of two blocks of an endpoint, the first
\* of which was pushed by a poller that has since gone on to the second.
C18_TwoKeysKept ==
    \E p \in Pollers :
        /\ Len(pushes[p]) = 2
        /\ ppc[p] = "tick"
        /\ (purl[p] \o FormatUint(pushes[p][1].number)) \in blocks
        /\ (purl[p] \o FormatUint(pushes[p][2].number)) \in blocks
        /\ Cardinality(blocks) >= 2

\* C19 as stated: a tick of a poller whose VU state is set is discarded at the
\* registry only if a LoadOrStore was made before for the same endpoint and the same
\* block number, that is, by a poller that pushed or is about to push for them.
C19_NoCrossSuppression ==
    [][\A p \in Pollers :
          (ppc[p] = "gate" /\ ppc'[p] = "tick" /\ vu'[p] = "set")
          => (PushesFor(purl[p], prev[p].Number) \cup PushingFor(purl[p], prev[p].Number)
                  # {})]_vars

\* C20: a poller that finds its VU state absent at line 151 stores nothing in the
\* registry and pushes nothing; it keeps the new block as its previous block, for
\* which it has pushed nothing. A push of a poller is for its previous block and
\* follows, in the same iteration, a test that found the VU state set.
C20_NoStateNoKeyNoSamples ==
    [][\A p \in Pollers :
          /\ (ppc[p] = "gate" /\ ppc'[p] # "gate" /\ vu'[p] = "nil") =>
                 /\ ppc'[p] = "tick"
                 /\ blocks' = blocks
                 /\ pushes' = pushes
                 /\ prev'[p] = prev[p]
                 /\ \A k \in 1..Len(pushes[p]) : pushes[p][k].number < prev[p].Number
          /\ pushes'[p] # pushes[p] =>
                 /\ ppc[p] = "push"
                 /\ vu[p] = "set"
                 /\ Pushed(p).number = prev[p].Number
          /\ (ppc[p] # "push" /\ ppc'[p] = "push") => (ppc[p] = "gate" /\ vu'[p] = "set")]_vars

\* C20 witness: a poller went through a tick for a new block without VU state and
\* pushed nothing; another poller of the endpoint pushed the samples of that block,
\* whose key is in the registry.
C20_OtherEmitsDespiteNoState ==
    \E p \in Pollers : \E q \in Pollers \ {p} :
        /\ purl[q] = purl[p]
        /\ vu[p] = "nil"
        /\ ppc[p] = "tick"
        /\ pushes[p] = <<>>
        /\ prev[p].Number > FirstBlock(purl[p])
        /\ \E k \in 1..Len(pushes[q]) :
               /\ pushes[q][k].number = prev[p].Number
               /\ pushes[q][k].delivered
        /\ Key(purl[p], prev[p].Number) \in blocks

(***************************************************************************)
(* Properties of Fund (checked under Spec)                                 *)
(***************************************************************************)

ValidStart == 0 < start /\ start <= managers

Recipients == start..(managers - 1)

\* The account a clause transfers to.
ClauseRecipient(c) == IF c.method = "transfer" THEN c.args[1] ELSE c.to

\* The amount the caller asked for, as a number.
RequestedAmount == IF amount = <<"1", "0">> THEN 16 ELSE 255

FunderTxs(f) == SelectSeq(txs, LAMBDA t : t.funder = f)

RECURSIVE Flatten(_)
Flatten(batches) ==
    IF batches = <<>> THEN <<>> ELSE Head(batches).clauses \o Flatten(Tail(batches))

FailedPcs == {"storeTyp", "storeData", "failed"}

\* C3 as stated: a call with start outside 0 < start <= N returns an error value
\* and submits no transaction.
C3_InvalidStartRejected ==
    (fpc \in {"returned", "panicked"} /\ ~ValidStart)
        => (result.kind = "error" /\ txs = <<>>)

\* C4: with 0 < start <= N, the assignment built by Fund gives every recipient i in
\* [start, N) exactly two clauses for the requested amount, one native and one
\* token transfer, both in the sequence of funder i mod start < start and nowhere
\* else, and holds no clause for an account below start.
\* (The recipients of funder f are f + start, f + 2*start, ... below N; the sequence
\* of f is made of one pair of clauses per recipient, in that order, and of nothing
\* else.)
C4_FunderAssignment ==
    (fpc \in {"launching", "returned"} /\ ValidStart) =>
        /\ \A i \in Recipients : i % start < start /\ i % start \in DOMAIN clauses
        /\ \A f \in DOMAIN clauses :
             /\ f < start
             /\ Len(clauses[f]) = 2 * Cardinality({i \in Recipients : i % start = f})
             /\ \A j \in 1..(Len(clauses[f]) \div 2) :
                  LET i == f + j * start
                  IN  /\ i \in Recipients
                      /\ i % start = f
                      /\ clauses[f][2 * j - 1] =
                             [to |-> Address(i), value |-> RequestedAmount,
                              method |-> "", args |-> <<>>]
                      /\ clauses[f][2 * j] =
                             [to |-> VTHOAddress, value |-> 0, method |-> "transfer",
                              args |-> <<Address(i), RequestedAmount>>]

\* C4 witness: an assignment with two funders, one of them with two recipients.
C4_TwoFundersBuilt ==
    /\ fpc = "launching"
    /\ ValidStart
    /\ Cardinality(DOMAIN clauses) = 2
    /\ \E f \in DOMAIN clauses : Len(clauses[f]) >= 4

\* C5: a transaction of a funder is submitted only when all earlier transactions of
\* that funder are confirmed, and batch j+1 (at offset 100*(j+1)) only after batch j
\* of the same funder.
C5_PerFunderOrder ==
    \A k \in 1..Len(txs) :
        /\ \A j \in 1..(k - 1) :
               txs[j].funder = txs[k].funder => txs[j].status = "confirmed"
        /\ txs[k].at > 0 =>
               \E j \in 1..(k - 1) :
                   /\ txs[j].funder = txs[k].funder
                   /\ txs[j].at = txs[k].at - BatchSize
                   /\ txs[j].status = "confirmed"

\* C5 witness: a funder submitted its second batch while a transaction of another
\* funder, submitted earlier, was still unconfirmed.
C5_InterleavedFunders ==
    \E k \in 1..Len(txs) : \E j \in 1..(k - 1) :
        /\ txs[k].at > 0
        /\ txs[j].funder # txs[k].funder
        /\ txs[j].status = "pending"

\* C6: the batches a funder submitted are, in order, consecutive slices of its
\* clause sequence, none empty, none above 100 clauses, all but the last of exactly
\* 100; a worker that ended without failure submitted ceil(k / 100) batches whose
\* concatenation is the whole sequence.
C6_BatchPartition ==
    \A f \in launched :
        LET b == FunderTxs(f)
            k == Len(clauses[f])
            flat == Flatten(b)
        IN  /\ \A j \in 1..Len(b) : Len(b[j].clauses) >= 1 /\ Len(b[j].clauses) <= BatchSize
            /\ \A j \in 1..(Len(b) - 1) : Len(b[j].clauses) = BatchSize
            /\ Len(flat) <= k
            /\ flat = SubSeq(clauses[f], 1, Len(flat))
            /\ wpc[f] = "done" =>
                   /\ Len(b) = (k + BatchSize - 1) \div BatchSize
                   /\ flat = clauses[f]

\* C6 witness: a worker ended after three batches.
C6_ThreeBatchesDone ==
    \E f \in launched :
        /\ wpc[f] = "done"
        /\ Len(clauses[f]) > 2 * BatchSize
        /\ Len(FunderTxs(f)) = 3

C7_Stopped ==
    /\ \A f \in launched :
           werr[f] # Nil =>
               /\ wpc[f] \in FailedPcs
               /\ \A k \in 1..Len(txs) : txs[k].funder = f => txs[k].at <= werr[f].data[2]
    /\ \A k \in 1..Len(txs) :
           txs[k].status = "failed" =>
               \A j \in (k + 1)..Len(txs) : txs[j].funder # txs[k].funder
    /\ \A g \in launched :
           wpc[g] = "done" =>
               /\ \A k \in 1..Len(txs) : txs[k].funder = g => txs[k].status = "confirmed"
               /\ Flatten(FunderTxs(g)) = clauses[g]

C7_Step ==
    /\ \A k \in 1..Len(txs) :
           txs[k].status = "confirmed" => (Len(txs') >= k /\ txs'[k] = txs[k])
    /\ \A f \in launched :
           wpc[f] \in FailedPcs =>
               /\ wpc'[f] \in FailedPcs
               /\ FunderTxs(f)' = FunderTxs(f)
    /\ \A f \in launched : \A g \in launched \ {f} :
           (wpc[f] \notin FailedPcs /\ wpc'[f] \in FailedPcs) =>
               (wpc'[g] = wpc[g] /\ wi'[g] = wi[g])

\* C7: a worker whose Send or Wait failed submits no further batch; its failure
\* changes no other worker's position; a worker that reaches the end of its loop has
\* all its batches confirmed whatever the others did; a confirmed transaction stays
\* confirmed.
C7_FailureIsPerFunder == []C7_Stopped /\ [][C7_Step]_vars

\* C7 witness: one funder's confirmation failed, and another funder, which
\* submitted a batch after that, went through all its batches.
C7_OneFailedOtherDone ==
    \E k \in 1..Len(txs) : \E j \in (k + 1)..Len(txs) :
        /\ txs[k].status = "failed"
        /\ wpc[txs[k].funder] = "failed"
        /\ txs[j].funder # txs[k].funder
        /\ wpc[txs[j].funder] = "done"

\* The failures the workers recorded.
Recorded == {werr[f] : f \in {g \in launched : werr[g] # Nil}}

\* C8 as stated: with a valid start, Fund returns an error exactly when a worker
\* recorded a failure, the error returned is one of the recorded failures, and
\* without a failure Fund returns nil.
C8_ReturnsARecordedError ==
    (fpc = "returned" /\ ValidStart) =>
        /\ (result.kind = "error") <=> (Recorded # {})
        /\ (Recorded # {}) => result.err \in Recorded
        /\ (Recorded = {}) => result.kind = "nil"

\* C9: when Fund has returned, every funder with clauses had its worker launched,
\* every worker has ended (all batches done, or stopped on a failure) and no
\* transaction is awaiting confirmation.
C9_ReturnAfterJoin ==
    (fpc = "returned" /\ ValidStart) =>
        /\ \A f \in DOMAIN clauses : f \in launched /\ wpc[f] \in {"done", "failed"}
        /\ \A k \in 1..Len(txs) : txs[k].status # "pending"

\* C9 witness: Fund returned after one worker failed and another completed.
C9_ReturnedAfterTwoWorkers ==
    /\ fpc = "returned"
    /\ \E f \in DOMAIN clauses : wpc[f] = "failed"
    /\ \E f \in DOMAIN clauses : wpc[f] = "done"

\* C10: the funders with clauses, hence with a worker, are exactly the indices
\* i mod start for start <= i < N; only they submit transactions, from their own
\* account; with start = N nothing is submitted and Fund returns nil; with 12
\* accounts and start = 10, account 0 has 2 clauses for account 10, account 1 has 2
\* clauses for account 11 and accounts 2-9 have none.
C10_WorkersOnlyForFunders ==
    (fpc \in {"launching", "returned"} /\ ValidStart) =>
        /\ DOMAIN clauses = {i % start : i \in Recipients}
        /\ \A f \in DOMAIN clauses : clauses[f] # <<>>
        /\ launched \subseteq DOMAIN clauses
        /\ fpc = "returned" => launched = DOMAIN clauses
        /\ \A k \in 1..Len(txs) :
               txs[k].funder \in launched /\ txs[k].origin = Address(txs[k].funder)
        /\ start = managers =>
               /\ DOMAIN clauses = {}
               /\ txs = <<>>
               /\ fpc = "returned" => result.kind = "nil"
        /\ (managers = 12 /\ start = 10) =>
               /\ DOMAIN clauses = {0, 1}
               /\ \A f \in {0, 1} :
                      /\ Len(clauses[f]) = 2
                      /\ \A k \in 1..2 : ClauseRecipient(clauses[f][k]) = Address(10 + f)

\* C10 witness: 12 accounts, start = 10: Fund returned nil after accounts 0 and 1
\* sent one transaction of 2 clauses each.
C10_TwelveAccountsFunded ==
    /\ managers = 12
    /\ start = 10
    /\ fpc = "returned"
    /\ result.kind = "nil"
    /\ Len(txs) = 2
    /\ \A k \in 1..2 : Len(txs[k].clauses) = 2 /\ txs[k].status = "confirmed"

\* C17: with progress, a call that has built its assignment returns; and Fund
\* does not return at a step before which a worker is still at a Send, at a Wait or
\* at the store of its error: while one confirmation is awaited Fund stays in
\* wg.Wait(), whatever the other workers have done.
C17_ReturnsWhenWorkersEnd ==
    /\ (fpc = "launching") ~> (fpc = "returned")
    /\ [][(\E f \in DOMAIN wpc : wpc[f] \in {"new", "send", "wait", "storeTyp", "storeData"})
              => fpc' # "returned"]_vars

\* C17 witness: every worker but one has ended, that one awaits a confirmation, and
\* Fund is in wg.Wait().
C17_BlockedOnOneWait ==
    /\ fpc = "launching"
    /\ launched = DOMAIN clauses
    /\ Cardinality(DOMAIN clauses) >= 2
    /\ \E f \in DOMAIN clauses :
           /\ wpc[f] = "wait"
           /\ \A g \in DOMAIN clauses \ {f} : wpc[g] \in {"done", "failed"}

====
